---- MODULE Spec2Model ----
(***************************************************************************)
(* A model of the SecondBrain persistence layer (src/database.py): the     *)
(* todos and experiences tables, schema initialization (init_db), the task *)
(* CRUD operations and the two task queries (get_todos, get_todays_tasks),  *)
(* and of the RAG helper (src/rag_helper.py): the document of an           *)
(* experience, the search by tags and the statistics.                      *)
(***************************************************************************)
EXTENDS Integers, Sequences, FiniteSets, TLC

VARIABLES
    schema,   \* which tables, optional columns and constraints the store has
    todos,    \* the rows of table todos
    seq,      \* sqlite_sequence entry of todos (largest id ever assigned)
    exps,     \* the rows of table experiences
    expSeq,   \* sqlite_sequence entry of experiences
    uuids,    \* how many values uuid.uuid4() has handed out so far
    now,      \* the clock behind CURRENT_TIMESTAMP and DATE('now'), in ticks
    pc,       \* where the process is: stopped, a step of init_db, or serving
    initialized, \* whether a run of init_db has completed on this store
    ret,      \* the last persistence call: its name, arguments and result
    query,    \* the arguments of the last get_todos / get_todays_tasks call
    result    \* the ordered rows that call returned

vars == <<schema, todos, seq, exps, expSeq, uuids, now, pc, initialized, ret, query, result>>

-----------------------------------------------------------------------------
(* Bounds of the model *)

MaxTodos == 2      \* ids handed out to tasks by the lifecycle specification
MaxExps == 1       \* ids handed out to experiences
MaxNow == 1        \* last tick of the clock in the lifecycle specification
TicksPerDay == 2   \* clock ticks (seconds, in the code) per calendar day
MaxDay == 2        \* last calendar day of the query specifications
MaxRows == 2       \* rows of a store sampled for the query specifications

-----------------------------------------------------------------------------
(* Values *)

\* SQL NULL / Python None in a date, token or id position, and in a TEXT one.
NULL == -1
NullText == "NULL"

\* What a row holds for a column its table does not have yet.
NoCol == -2
NoColText == "NOCOL"

Days == 0..MaxDay
Dates == {NULL} \cup Days

\* DATE(ts) of a timestamp, and DATE('now').
DateOf(ts) == ts \div TicksPerDay
Today == DateOf(now)

StatusValues == {"in-queue", "ready", "in-progress", "hold", "done", "pending"}
PriorityValues == {"Low", "Medium", "High", "Critical", "Urgent"}
Titles == {"a", "b"}
Descriptions == {"", "d"}

\* Binary collation of the sample TEXT values (ORDER BY on a TEXT column).
TextOrd(s) ==
    CASE s = "" -> 0
      [] s = "a" -> 1
      [] s = "b" -> 2
      [] s = "d" -> 3
      [] OTHER -> 4

\* The arguments of create_todo / update_todo.
TodoArgs(t, d, s, p, td, sd, ed) ==
    [title |-> t, description |-> d, status |-> s, priority |-> p,
     target_date |-> td, start_date |-> sd, end_date |-> ed]

AllTodoArgs ==
    [title : Titles, description : Descriptions, status : StatusValues,
     priority : PriorityValues, target_date : Dates, start_date : Dates,
     end_date : Dates]

\* create_todo's defaults: only the title is required.
DefaultArgs == TodoArgs("a", "", "in-queue", "Medium", NULL, NULL, NULL)

NoArgs == TodoArgs("", "", "", "", NULL, NULL, NULL)

\* A row of todos.
TodoRow(id, uid, a, created, updated) ==
    [id |-> id, unique_id |-> uid, title |-> a.title,
     description |-> a.description, status |-> a.status,
     priority |-> a.priority, target_date |-> a.target_date,
     start_date |-> a.start_date, end_date |-> a.end_date,
     created_at |-> created, updated_at |-> updated]

\* The caller-visible fields of a row, as create_todo took them.
ArgsOf(r) ==
    TodoArgs(r.title, r.description, r.status, r.priority,
             r.target_date, r.start_date, r.end_date)

\* A row of experiences.
ExpRow(id, t, tags, cat, ctx, created, updated) ==
    [id |-> id, title |-> t, content |-> "", tags |-> tags, category |-> cat,
     context |-> ctx, created_at |-> created, updated_at |-> updated]

MaxOf(S) == IF S = {} THEN 0 ELSE CHOOSE m \in S : \A x \in S : x <= m

-----------------------------------------------------------------------------
(* Schema *)

\* The columns init_db adds to an older todos table, in the order it adds them.
TodoColumnOrder == <<"priority", "target_date", "start_date", "end_date", "unique_id">>
OptionalTodoCols == {TodoColumnOrder[i] : i \in 1..Len(TodoColumnOrder)}
ExpColumnOrder == <<"tags", "category", "context">>
OptionalExpCols == {ExpColumnOrder[i] : i \in 1..Len(ExpColumnOrder)}

\* No table yet: the store of a first start.
EmptySchema ==
    [todos |-> FALSE, todoCols |-> {}, uidUnique |-> FALSE, uidNotNull |-> FALSE,
     experiences |-> FALSE, expCols |-> {}]

\* What CREATE TABLE IF NOT EXISTS todos does (lines 26-40).
CreateTodosTable(sch) ==
    IF sch.todos THEN sch
    ELSE [sch EXCEPT !.todos = TRUE, !.todoCols = OptionalTodoCols,
                     !.uidUnique = TRUE, !.uidNotNull = TRUE]

\* What CREATE TABLE IF NOT EXISTS experiences does (lines 88-99).
CreateExperiencesTable(sch) ==
    IF sch.experiences THEN sch
    ELSE [sch EXCEPT !.experiences = TRUE, !.expCols = OptionalExpCols]

\* The schema a complete run of init_db leaves on a new store.
CurrentSchema == CreateExperiencesTable(CreateTodosTable(EmptySchema))

\* The value existing rows read in a column that ALTER TABLE ADD COLUMN added.
ColumnDefault(col) ==
    CASE col = "priority" -> "Medium"
      [] col \in {"target_date", "start_date", "end_date", "unique_id"} -> NULL
      [] OTHER -> NullText

\* uuid.uuid4(): a value never handed out before; the k-th one is named k.
Uuid4 == uuids + 1

-----------------------------------------------------------------------------
(* init_db, statement by statement *)

At(a) == [at |-> a, col |-> ""]
AtCol(a, c) == [at |-> a, col |-> c]

\* ret: the call, the id it took or returned, its arguments, its success flag
\* (or, for a raised error, err), and the rows a lookup returned.
Ret(op, id, a, ok, rows) ==
    [op |-> op, id |-> id, args |-> a, ok |-> ok, rows |-> rows, err |-> "none"]
Raised(op, a, err) ==
    [op |-> op, id |-> NULL, args |-> a, ok |-> FALSE, rows |-> {}, err |-> err]
NoRet == Ret("none", NULL, NoArgs, FALSE, {})
NoQuery ==
    [op |-> "none", status_filter |-> "", from_date |-> NULL, to_date |-> NULL,
     sort_by |-> "", sort_order |-> "", include_done |-> ""]

\* The step after adding (or failing to add) the i-th optional todos column.
AfterTodoColumn(i) ==
    IF i < Len(TodoColumnOrder) - 1
    THEN AtCol("add_todo_column", TodoColumnOrder[i + 1])
    ELSE At("add_unique_id")

AfterExpColumn(i) ==
    IF i < Len(ExpColumnOrder)
    THEN AtCol("add_exp_column", ExpColumnOrder[i + 1])
    ELSE At("close")

\* Lines 26-40: CREATE TABLE IF NOT EXISTS todos.
InitCreateTodos ==
    /\ pc = At("create_todos")
    /\ schema' = CreateTodosTable(schema)
    /\ pc' = AtCol("add_todo_column", TodoColumnOrder[1])
    /\ UNCHANGED <<todos, seq, exps, expSeq, uuids, now, initialized, ret, query, result>>

\* ADD COLUMN that replaces a column that exists, resetting it to its default.
AddTodoColumnReplacing(sch, rows, col) ==
    [schema |-> [sch EXCEPT !.todoCols = @ \cup {col}],
     rows |-> {[r EXCEPT ![col] = ColumnDefault(col)] : r \in rows}]

\* ALTER TABLE todos ADD COLUMN col: the new schema and rows, or the same ones
\* when the column exists (the OperationalError is caught and passed over).
AddTodoColumn(sch, rows, col) ==
    IF col \in sch.todoCols
    THEN [schema |-> sch, rows |-> rows]
    ELSE [schema |-> [sch EXCEPT !.todoCols = @ \cup {col}],
          rows |-> {[r EXCEPT ![col] = ColumnDefault(col)] : r \in rows}]

\* Lines 42-68: the four try/ALTER TABLE/commit/except blocks of todos.
InitAddTodoColumn(i) ==
    /\ pc = AtCol("add_todo_column", TodoColumnOrder[i])
    /\ LET got == AddTodoColumn(schema, todos, TodoColumnOrder[i])
       IN  /\ schema' = got.schema
           /\ todos' = got.rows
    /\ pc' = AfterTodoColumn(i)
    /\ UNCHANGED <<seq, exps, expSeq, uuids, now, initialized, ret, query, result>>

\* Lines 71-73 and 84-85: ALTER TABLE todos ADD COLUMN unique_id TEXT; when the
\* column exists the whole try block is left, backfill and index included.
InitAddUniqueId ==
    /\ pc = At("add_unique_id")
    /\ LET got == AddTodoColumn(schema, todos, "unique_id")
       IN  /\ schema' = got.schema
           /\ todos' = got.rows
    /\ pc' = IF "unique_id" \in schema.todoCols
             THEN At("create_experiences") ELSE At("backfill")
    /\ UNCHANGED <<seq, exps, expSeq, uuids, now, initialized, ret, query, result>>

\* How many of the rows without a token come at or before id in the SELECT.
BackfillRank(rows, id) == Cardinality({q \in rows : q.unique_id = NULL /\ q.id <= id})

\* Lines 76-80: one uuid4 per row whose unique_id IS NULL.
Backfill(rows, base) ==
    {IF r.unique_id = NULL
     THEN [r EXCEPT !.unique_id = base + BackfillRank(rows, r.id)]
     ELSE r : r \in rows}

InitBackfill ==
    /\ pc = At("backfill")
    /\ todos' = Backfill(todos, uuids)
    /\ uuids' = uuids + Cardinality({r \in todos : r.unique_id = NULL})
    /\ pc' = At("unique_index")
    /\ UNCHANGED <<schema, seq, exps, expSeq, now, initialized, ret, query, result>>

\* Two rows hold the same non-NULL token.
DuplicateToken(rows) ==
    \E r, q \in rows : r.id # q.id /\ r.unique_id # NULL /\ r.unique_id = q.unique_id

\* Lines 82-83: CREATE UNIQUE INDEX IF NOT EXISTS idx_unique_id. On duplicate
\* tokens the statement raises IntegrityError, which init_db does not catch.
InitUniqueIndex ==
    /\ pc = At("unique_index")
    /\ IF DuplicateToken(todos)
       THEN pc' = At("failed") /\ UNCHANGED schema
       ELSE pc' = At("create_experiences") /\ schema' = [schema EXCEPT !.uidUnique = TRUE]
    /\ UNCHANGED <<todos, seq, exps, expSeq, uuids, now, initialized, ret, query, result>>

\* Lines 88-99: CREATE TABLE IF NOT EXISTS experiences.
InitCreateExperiences ==
    /\ pc = At("create_experiences")
    /\ schema' = CreateExperiencesTable(schema)
    /\ pc' = AtCol("add_exp_column", ExpColumnOrder[1])
    /\ UNCHANGED <<todos, seq, exps, expSeq, uuids, now, initialized, ret, query, result>>

AddExpColumn(sch, rows, col) ==
    IF col \in sch.expCols
    THEN [schema |-> sch, rows |-> rows]
    ELSE [schema |-> [sch EXCEPT !.expCols = @ \cup {col}],
          rows |-> {[r EXCEPT ![col] = ColumnDefault(col)] : r \in rows}]

\* Lines 101-120: the three try/ALTER TABLE/commit/except blocks of experiences.
InitAddExpColumn(i) ==
    /\ pc = AtCol("add_exp_column", ExpColumnOrder[i])
    /\ LET got == AddExpColumn(schema, exps, ExpColumnOrder[i])
       IN  /\ schema' = got.schema
           /\ exps' = got.rows
    /\ pc' = AfterExpColumn(i)
    /\ UNCHANGED <<todos, seq, expSeq, uuids, now, initialized, ret, query, result>>

\* Lines 122-123, then app.run: init_db returns and the application serves.
InitClose ==
    /\ pc = At("close")
    /\ pc' = At("serving")
    /\ initialized' = TRUE
    /\ UNCHANGED <<schema, todos, seq, exps, expSeq, uuids, now, ret, query, result>>

\* The process ends and is started again: init_db runs on the stored data.
Restart ==
    /\ pc = At("serving")
    /\ pc' = At("create_todos")
    /\ ret' = NoRet
    /\ query' = NoQuery
    /\ result' = <<>>
    /\ UNCHANGED <<schema, todos, seq, exps, expSeq, uuids, now, initialized>>

InitDb ==
    \/ InitCreateTodos
    \/ \E i \in 1..(Len(TodoColumnOrder) - 1) : InitAddTodoColumn(i)
    \/ InitAddUniqueId
    \/ InitBackfill
    \/ InitUniqueIndex
    \/ InitCreateExperiences
    \/ \E i \in 1..Len(ExpColumnOrder) : InitAddExpColumn(i)
    \/ InitClose

-----------------------------------------------------------------------------
(* Task and experience operations *)

Serving == pc = At("serving")

\* The rowid of a table without AUTOINCREMENT: one more than the largest stored.
NextRowIdReusing(rows, last) == MaxOf({r.id : r \in rows}) + 1

\* The rowid an INSERT into an AUTOINCREMENT table gets: one more than the
\* largest id ever assigned (sqlite_sequence) and than every stored id.
NextRowId(rows, last) == MaxOf({last} \cup {r.id : r \in rows}) + 1

\* create_todo with start_date and end_date bound to each other's column.
InsertTodoSwapped(rows, id, uid, a, ts) ==
    rows \cup {TodoRow(id, uid, [a EXCEPT !.start_date = a.end_date,
                                          !.end_date = a.start_date], ts, ts)}

\* Lines 160-163: the INSERT binds the eight parameters to their columns;
\* created_at and updated_at take the column default CURRENT_TIMESTAMP.
InsertTodo(rows, id, uid, a, ts) == rows \cup {TodoRow(id, uid, a, ts, ts)}

\* The UNIQUE constraint on unique_id (column constraint or idx_unique_id).
ViolatesUnique(sch, rows, uid) ==
    sch.uidUnique /\ \E r \in rows : r.unique_id = uid

\* Lines 156-167: create_todo.
CreateTodo(a) ==
    /\ Serving
    /\ seq < MaxTodos
    /\ uuids' = uuids + 1
    /\ IF ViolatesUnique(schema, todos, Uuid4)
       THEN /\ ret' = Raised("create_todo", a, "IntegrityError")
            /\ UNCHANGED <<todos, seq>>
       ELSE LET id == NextRowId(todos, seq)
            IN  /\ todos' = InsertTodo(todos, id, Uuid4, a, now)
                /\ seq' = id
                /\ ret' = Ret("create_todo", id, a, TRUE, {})
    /\ UNCHANGED <<schema, exps, expSeq, now, pc, initialized, query, result>>

\* Lines 317-320: get_todo_by_id; no row is the empty set (None).
get_todo_by_id(rows, id) == {r \in rows : r.id = id}

GetTodo(id) ==
    /\ Serving
    /\ ret' = Ret("get_todo_by_id", id, NoArgs, TRUE, get_todo_by_id(todos, id))
    /\ UNCHANGED <<schema, todos, seq, exps, expSeq, uuids, now, pc, initialized, query, result>>

\* update_todo writing a new token along with the fields.
UpdateRowNewToken(r, a, ts) ==
    [r EXCEPT !.title = a.title, !.description = a.description,
              !.status = a.status, !.priority = a.priority,
              !.target_date = a.target_date, !.start_date = a.start_date,
              !.end_date = a.end_date, !.updated_at = ts, !.unique_id = Uuid4]

\* Lines 341-344: the UPDATE of update_todo sets the seven fields and updated_at.
UpdateRow(r, a, ts) ==
    [r EXCEPT !.title = a.title, !.description = a.description,
              !.status = a.status, !.priority = a.priority,
              !.target_date = a.target_date, !.start_date = a.start_date,
              !.end_date = a.end_date, !.updated_at = ts]

\* Lines 340-348: update_todo; total_changes > 0 iff a row had the id.
UpdateTodo(id, a) ==
    /\ Serving
    /\ todos' = {IF r.id = id THEN UpdateRow(r, a, now) ELSE r : r \in todos}
    /\ ret' = Ret("update_todo", id, a, \E r \in todos : r.id = id, {})
    /\ UNCHANGED <<schema, seq, exps, expSeq, uuids, now, pc, initialized, query, result>>

\* update_todo_status leaving updated_at as it is.
UpdateRowStatusKeepingStamp(r, s, ts) == [r EXCEPT !.status = s]

\* Lines 363-366: the UPDATE of update_todo_status.
UpdateRowStatus(r, s, ts) == [r EXCEPT !.status = s, !.updated_at = ts]

\* Lines 362-370: update_todo_status.
UpdateTodoStatus(id, s) ==
    /\ Serving
    /\ todos' = {IF r.id = id THEN UpdateRowStatus(r, s, now) ELSE r : r \in todos}
    /\ ret' = Ret("update_todo_status", id, [NoArgs EXCEPT !.status = s],
                  \E r \in todos : r.id = id, {})
    /\ UNCHANGED <<schema, seq, exps, expSeq, uuids, now, pc, initialized, query, result>>

\* delete_todo reporting success whether or not a row had the id.
DeleteTodoReportingTrue(id) ==
    /\ Serving
    /\ todos' = {r \in todos : r.id # id}
    /\ ret' = Ret("delete_todo", id, NoArgs, TRUE, {})
    /\ UNCHANGED <<schema, seq, exps, expSeq, uuids, now, pc, initialized, query, result>>

\* Lines 383-388: delete_todo; total_changes > 0 iff a row had the id.
DeleteTodo(id) ==
    /\ Serving
    /\ todos' = {r \in todos : r.id # id}
    /\ ret' = Ret("delete_todo", id, NoArgs, \E r \in todos : r.id = id, {})
    /\ UNCHANGED <<schema, seq, exps, expSeq, uuids, now, pc, initialized, query, result>>

\* Lines 409-417: create_experience.
CreateExperience(t, tags, cat, ctx) ==
    /\ Serving
    /\ expSeq < MaxExps
    /\ LET id == NextRowId(exps, expSeq)
       IN  /\ exps' = exps \cup {ExpRow(id, t, tags, cat, ctx, now, now)}
           /\ expSeq' = id
           /\ ret' = Ret("create_experience", id, NoArgs, TRUE, {})
    /\ UNCHANGED <<schema, todos, seq, uuids, now, pc, initialized, query, result>>

\* Lines 520-525: delete_experience.
DeleteExperience(id) ==
    /\ Serving
    /\ exps' = {r \in exps : r.id # id}
    /\ ret' = Ret("delete_experience", id, NoArgs, \E r \in exps : r.id = id, {})
    /\ UNCHANGED <<schema, todos, seq, expSeq, uuids, now, pc, initialized, query, result>>

\* Time passes: CURRENT_TIMESTAMP has a resolution of one tick.
Tick ==
    /\ Serving
    /\ now < MaxNow
    /\ now' = now + 1
    /\ UNCHANGED <<schema, todos, seq, exps, expSeq, uuids, pc, initialized, ret, query, result>>

-----------------------------------------------------------------------------
(* ORDER BY *)

\* A value as ORDER BY compares it: NULL sorts before every other value.
SqlKey(v) == IF v = NULL THEN <<0, 0>> ELSE <<1, v>>

KeyLess(a, b) == a[1] < b[1] \/ (a[1] = b[1] /\ a[2] < b[2])

\* One term of an ORDER BY clause, for one row: its key and its direction.
Term(v, dir) == [key |-> SqlKey(v), desc |-> dir = "DESC"]

TermBefore(a, b) == IF a.desc THEN KeyLess(b.key, a.key) ELSE KeyLess(a.key, b.key)

\* Row x must come before row y: the first term they differ in says so.
\* terms[r] is the sequence of ORDER BY terms of row r.
MustPrecede(x, y, terms) ==
    \E i \in 1..Len(terms[x]) :
        /\ \A j \in 1..(i - 1) : terms[x][j].key = terms[y][j].key
        /\ TermBefore(terms[x][i], terms[y][i])

\* Every order of the rows in which no two are swapped. Rows that are equal
\* in every term may come in any order: SQL leaves the order of ties open.
Orderings(rows, terms) ==
    {s \in [1..Cardinality(rows) -> rows] :
        /\ \A i, j \in 1..Cardinality(rows) : i # j => s[i] # s[j]
        /\ \A i, j \in 1..Cardinality(rows) : i < j => ~MustPrecede(s[j], s[i], terms)}

-----------------------------------------------------------------------------
(* get_todos *)

\* The arguments of get_todos; an empty from_date/to_date is NULL here.
ListArgs(sf, fd, td, sb, so, inc) ==
    [op |-> "get_todos", status_filter |-> sf, from_date |-> fd, to_date |-> td,
     sort_by |-> sb, sort_order |-> so, include_done |-> inc]

\* Line 213.
allowed_sorts ==
    {"created_at", "updated_at", "title", "status", "priority", "target_date",
     "start_date", "end_date", "remaining_days"}

\* sort_by passed on unchecked.
ValidSortByUnchecked(sb) == sb

\* Lines 214-215 and 217-218: the validation of the two sort arguments.
ValidSortBy(sb) == IF sb \notin allowed_sorts THEN "created_at" ELSE sb
ValidSortOrder(so) == IF so \notin {"ASC", "DESC"} THEN "DESC" ELSE so

\* get_todos without the default exclusion of done tasks.
StatusConditionKeepingDone(r, sf, inc) == IF sf # "" THEN r.status = sf ELSE TRUE

\* Lines 193-199: the status condition of the WHERE clause.
StatusCondition(r, sf, inc) ==
    IF sf # "" THEN r.status = sf
    ELSE IF inc = "false" THEN r.status # "done"
    ELSE TRUE

\* Lines 201-207: the two conditions on DATE(created_at).
DateCondition(r, fd, td) ==
    /\ fd # NULL => DateOf(r.created_at) >= fd
    /\ td # NULL => DateOf(r.created_at) <= td

\* Lines 193-210: the rows the WHERE clause keeps.
Where(rows, q) ==
    {r \in rows : /\ StatusCondition(r, q.status_filter, q.include_done)
                  /\ DateCondition(r, q.from_date, q.to_date)}

\* The statuses ranked in lexical order.
StatusRankLexical(s) ==
    CASE s = "done" -> 1
      [] s = "hold" -> 2
      [] s = "in-progress" -> 3
      [] s = "in-queue" -> 4
      [] s = "ready" -> 5
      [] OTHER -> 6

\* Lines 224-231: CASE status ... END.
StatusRank(s) ==
    CASE s = "in-queue" -> 1
      [] s = "ready" -> 2
      [] s = "in-progress" -> 3
      [] s = "hold" -> 4
      [] s = "done" -> 5
      [] OTHER -> 6

\* The priorities with every other value ranked first (ELSE 0).
PriorityRankElseFirst(p) ==
    CASE p = "Low" -> 1
      [] p = "Medium" -> 2
      [] p = "High" -> 3
      [] p = "Critical" -> 4
      [] OTHER -> 0

\* Lines 236-242: CASE priority ... END.
PriorityRank(p) ==
    CASE p = "Low" -> 1
      [] p = "Medium" -> 2
      [] p = "High" -> 3
      [] p = "Critical" -> 4
      [] OTHER -> 5

\* Line 252: julianday(target_date) - julianday('now'), in ticks; NULL for NULL.
RemainingDays(r, clock) ==
    IF r.target_date = NULL THEN NULL ELSE r.target_date * TicksPerDay - clock

\* Line 256: the value of a plain column as ORDER BY compares it.
ColumnValue(r, col) == IF col = "title" THEN TextOrd(r.title) ELSE r[col]

\* remaining_days with the sort order applied to the NULL flag as well.
OrderByFlagDirected(r, sb, so, clock) ==
    CASE sb = "status" -> <<Term(StatusRank(r.status), so)>>
      [] sb = "priority" -> <<Term(PriorityRank(r.priority), so)>>
      [] sb = "remaining_days" ->
            <<Term(IF r.target_date = NULL THEN 1 ELSE 0, so),
              [key |-> IF r.target_date = NULL THEN <<0, 0>>
                       ELSE <<1, RemainingDays(r, clock)>>,
               desc |-> so = "DESC"]>>
      [] OTHER -> <<Term(ColumnValue(r, sb), so)>>

\* Lines 221-256: the ORDER BY clause for validated sort_by sb and sort_order so.
\* A term with no direction written sorts ascending. The key of remaining_days
\* is kept apart from NULL by its own flag, since it can be negative.
OrderBy(r, sb, so, clock) ==
    CASE sb = "status" -> <<Term(StatusRank(r.status), so)>>
      [] sb = "priority" -> <<Term(PriorityRank(r.priority), so)>>
      [] sb = "remaining_days" ->
            <<Term(IF r.target_date = NULL THEN 1 ELSE 0, "ASC"),
              [key |-> IF r.target_date = NULL THEN <<0, 0>>
                       ELSE <<1, RemainingDays(r, clock)>>,
               desc |-> so = "DESC"]>>
      [] OTHER -> <<Term(ColumnValue(r, sb), so)>>

\* Lines 186-261: every sequence of rows get_todos can return.
get_todos(rows, q, clock) ==
    LET sb == ValidSortBy(q.sort_by)
        so == ValidSortOrder(q.sort_order)
        kept == Where(rows, q)
    IN  Orderings(kept, [r \in kept |-> OrderBy(r, sb, so, clock)])

\* The sort values written into the query text (the f-strings of 223-256).
QueryText(q) ==
    [order_by |-> ValidSortBy(q.sort_by), direction |-> ValidSortOrder(q.sort_order)]

ListTodos(q) ==
    /\ Serving
    /\ result' \in get_todos(todos, q, now)
    /\ query' = q
    /\ UNCHANGED <<schema, todos, seq, exps, expSeq, uuids, now, pc, initialized, ret>>

-----------------------------------------------------------------------------
(* get_todays_tasks *)

\* Lines 279-282: the is_overdue column.
is_overdue(r, today) ==
    IF r.end_date # NULL /\ r.end_date < today /\ r.status # "done" THEN 1 ELSE 0

\* get_todays_tasks keeping done tasks whose end_date has passed.
TodayWhereKeepingDone(rows, today) ==
    {r \in rows :
        \/ /\ r.start_date # NULL /\ r.end_date # NULL
           /\ r.start_date <= today /\ today <= r.end_date
        \/ /\ r.end_date # NULL /\ r.end_date < today}

\* Lines 284-289: the WHERE clause.
TodayWhere(rows, today) ==
    {r \in rows :
        \/ /\ r.start_date # NULL /\ r.end_date # NULL
           /\ r.start_date <= today /\ today <= r.end_date
        \/ /\ r.end_date # NULL /\ r.end_date < today /\ r.status # "done"}

\* Lines 292-298: CASE priority ... END of get_todays_tasks.
TodayPriorityRank(p) ==
    CASE p = "Critical" -> 1
      [] p = "High" -> 2
      [] p = "Medium" -> 3
      [] p = "Low" -> 4
      [] OTHER -> 5

\* get_todays_tasks ordered by priority before the overdue flag.
TodayOrderByPriorityFirst(r, today) ==
    <<Term(TodayPriorityRank(r.priority), "ASC"),
      Term(is_overdue(r, today), "DESC"),
      Term(r.start_date, "ASC")>>

\* Lines 290-299: the ORDER BY clause.
TodayOrderBy(r, today) ==
    <<Term(is_overdue(r, today), "DESC"),
      Term(TodayPriorityRank(r.priority), "ASC"),
      Term(r.start_date, "ASC")>>

\* Lines 276-304: every sequence of rows get_todays_tasks can return.
get_todays_tasks(rows, today) ==
    LET kept == TodayWhere(rows, today)
    IN  Orderings(kept, [r \in kept |-> TodayOrderBy(r, today)])

GetTodaysTasks ==
    /\ Serving
    /\ result' \in get_todays_tasks(todos, Today)
    /\ query' = [NoQuery EXCEPT !.op = "get_todays_tasks"]
    /\ UNCHANGED <<schema, todos, seq, exps, expSeq, uuids, now, pc, initialized, ret>>

-----------------------------------------------------------------------------
(* The RAG helper (src/rag_helper.py) *)

\* In the rows the helper reads, a TEXT value is a sequence of one-character
\* strings, and None is the sequence NoneText, which is no text.
NoneText == <<NullText>>
Whitespace == {" "}
Comma == ","

\* What a dict holds for a key it does not have, and dict.get(key, default).
AbsentKey == <<NoColText>>
Get(v, default) == IF v = AbsentKey THEN default ELSE v

\* bool(v) of a TEXT value or None, and the expression v or ''.
Truthy(v) == v # NoneText /\ v # <<>>
OrEmpty(v) == IF Truthy(v) THEN v ELSE <<>>

\* str.lower().
LowerChar(c) ==
    CASE c = "A" -> "a"
      [] c = "B" -> "b"
      [] OTHER -> c
Lower(s) == [i \in 1..Len(s) |-> LowerChar(s[i])]

\* str.strip(): whitespace is dropped from the left end, then from the right.
RECURSIVE LStrip(_)
LStrip(s) == IF s # <<>> /\ Head(s) \in Whitespace THEN LStrip(Tail(s)) ELSE s

RECURSIVE RStrip(_)
RStrip(s) ==
    IF s # <<>> /\ s[Len(s)] \in Whitespace THEN RStrip(SubSeq(s, 1, Len(s) - 1)) ELSE s

Strip(s) == RStrip(LStrip(s))

\* str.split(sep): the pieces between the separators, empty pieces included;
\* a text without a separator is its own only piece.
RECURSIVE Split(_, _)
Split(s, sep) ==
    IF \A i \in 1..Len(s) : s[i] # sep THEN <<s>>
    ELSE LET i == CHOOSE k \in 1..Len(s) : s[k] = sep /\ \A j \in 1..(k - 1) : s[j] # sep
         IN  <<SubSeq(s, 1, i - 1)>> \o Split(SubSeq(s, i + 1, Len(s)), sep)

\* The comprehension of line 26 filtering on tag instead of tag.strip().
TagListKeepingBlank(text) ==
    LET parts == Split(OrEmpty(Get(text, <<>>)), Comma)
        Keep(p) == p # <<>>
        kept == SelectSeq(parts, Keep)
    IN  [i \in 1..Len(kept) |-> Strip(kept[i])]

\* Line 26: [tag.strip() for tag in (tags or '').split(',') if tag.strip()].
TagList(text) ==
    LET parts == Split(OrEmpty(Get(text, <<>>)), Comma)
        Keep(p) == Strip(p) # <<>>
        kept == SelectSeq(parts, Keep)
    IN  [i \in 1..Len(kept) |-> Strip(kept[i])]

\* Lines 22-38: format_experience_for_rag on dict(row).
format_experience_for_rag(experience) ==
    [id |-> experience.id,
     title |-> experience.title,
     content |-> OrEmpty(experience.content),
     tags |-> TagList(experience.tags),
     category |-> Get(experience.category, <<>>),
     context |-> Get(experience.context, <<>>),
     created_at |-> experience.created_at,
     updated_at |-> experience.updated_at,
     metadata |-> [type |-> "past_experience", source |-> "second_brain_app",
                   has_tags |-> Truthy(Get(experience.tags, NoneText)),
                   has_category |-> Truthy(Get(experience.category, NoneText)),
                   has_context |-> Truthy(Get(experience.context, NoneText))]]

\* database.py lines 434-465 with the default arguments: every order of the
\* rows that ORDER BY created_at DESC allows.
get_experiences(rows) == Orderings(rows, [r \in rows |-> <<Term(r.created_at, "DESC")>>])

\* Lines 48-49: get_all_experiences_for_rag, for the rows as fetched.
get_all_experiences_for_rag(fetched) ==
    [i \in 1..Len(fetched) |-> format_experience_for_rag(fetched[i])]

\* The helper's calls, each for one order in which the rows can be fetched.
FormatExperience(experience) ==
    /\ Serving
    /\ query' = [op |-> "format_experience_for_rag", experience |-> experience]
    /\ result' = format_experience_for_rag(experience)
    /\ UNCHANGED <<schema, todos, seq, exps, expSeq, uuids, now, pc, initialized, ret>>

\* What a call of the helper returns: its value, or the error it raised.
Returned(v) == [err |-> "none", value |-> v]
RaisedError(e) == [err |-> e, value |-> <<>>]

\* sqlite3.Row has keys() and indexing by name and position, but no get().
RowHasGet == FALSE

\* Line 128, 129 and 132 for one fetched row: whether a query tag, stripped and
\* lowered, is among the stripped and lowered tags of the row.
AnyTagMatches(exp, tags) ==
    LET parsed == TagList(exp.tags)
        exp_tags == {Lower(parsed[i]) : i \in 1..Len(parsed)}
        query_tags == {Lower(Strip(tags[i])) : i \in 1..Len(tags)}
    IN  query_tags \cap exp_tags # {}

\* Lines 124-135: search_experiences_by_tags on the rows as fetched. The loop
\* calls exp.get on the first fetched sqlite3.Row, which raises AttributeError;
\* with no row fetched the loop body does not run.
search_experiences_by_tags(fetched, tags) ==
    IF fetched # <<>> /\ ~RowHasGet
    THEN RaisedError("AttributeError")
    ELSE LET Matches(exp) == AnyTagMatches(exp, tags)
             matching == SelectSeq(fetched, Matches)
         IN  Returned([i \in 1..Len(matching) |-> format_experience_for_rag(matching[i])])

SearchExperiencesByTags(tags) ==
    /\ Serving
    /\ \E fetched \in get_experiences(exps) :
          /\ query' = [op |-> "search_experiences_by_tags", tags |-> tags, fetched |-> fetched]
          /\ result' = search_experiences_by_tags(fetched, tags)
    /\ UNCHANGED <<schema, todos, seq, exps, expSeq, uuids, now, pc, initialized, ret>>

\* A dict, as Python keeps it: its items in the order the keys were inserted.
\* counts[key] = counts.get(key, 0) + 1 (lines 176 and 180).
Increment(counts, key) ==
    IF \A i \in 1..Len(counts) : counts[i].key # key
    THEN Append(counts, [key |-> key, n |-> 1])
    ELSE [i \in 1..Len(counts) |->
             IF counts[i].key = key THEN [counts[i] EXCEPT !.n = @ + 1] ELSE counts[i]]

RECURSIVE CountAll(_, _)
CountAll(counts, keys) ==
    IF keys = <<>> THEN counts ELSE CountAll(Increment(counts, Head(keys)), Tail(keys))

\* The keys the loop of lines 173-180 counts, in the order it meets them.
Uncategorized == <<"Uncategorized">>
CategoryKeys(docs) ==
    [i \in 1..Len(docs) |->
        IF Truthy(docs[i].category) THEN docs[i].category ELSE Uncategorized]

RECURSIVE TagKeys(_)
TagKeys(docs) == IF docs = <<>> THEN <<>> ELSE Head(docs).tags \o TagKeys(Tail(docs))

\* An item put before the items of equal count: a sort that is not stable.
InsertByCountBeforeEqual(sorted, item) ==
    LET k == Cardinality({i \in 1..Len(sorted) : sorted[i].n > item.n})
    IN  SubSeq(sorted, 1, k) \o <<item>> \o SubSeq(sorted, k + 1, Len(sorted))

\* sorted(items, key=count, reverse=True) is stable: an item goes behind every
\* item that came before it and has a count that is not smaller.
InsertByCount(sorted, item) ==
    LET k == Cardinality({i \in 1..Len(sorted) : sorted[i].n >= item.n})
    IN  SubSeq(sorted, 1, k) \o <<item>> \o SubSeq(sorted, k + 1, Len(sorted))

RECURSIVE SortedByCount(_)
SortedByCount(items) ==
    IF items = <<>> THEN <<>>
    ELSE InsertByCount(SortedByCount(SubSeq(items, 1, Len(items) - 1)), items[Len(items)])

\* Line 194: the slice [:10].
TopTagsLimit == 10
FirstItems(items, n) == SubSeq(items, 1, IF Len(items) < n THEN Len(items) ELSE n)

\* Lines 165-197: get_experience_statistics, for the rows as fetched.
get_experience_statistics(fetched) ==
    LET all_experiences == get_all_experiences_for_rag(fetched)
        category_counts == CountAll(<<>>, CategoryKeys(all_experiences))
        tag_counts == CountAll(<<>>, TagKeys(all_experiences))
        with(Test(_)) == Cardinality({i \in 1..Len(all_experiences) : Test(all_experiences[i])})
        HasContext(exp) == Truthy(exp.context)
        HasTags(exp) == exp.tags # <<>>
    IN  [total_experiences |-> Len(all_experiences),
         experiences_with_context |-> with(HasContext),
         experiences_with_tags |-> with(HasTags),
         category_distribution |-> category_counts,
         top_tags |-> FirstItems(SortedByCount(tag_counts), TopTagsLimit),
         unique_categories |-> Len(category_counts),
         unique_tags |-> Len(tag_counts)]

GetExperienceStatistics ==
    /\ Serving
    /\ \E fetched \in get_experiences(exps) :
          /\ query' = [op |-> "get_experience_statistics", fetched |-> fetched]
          /\ result' = Returned(get_experience_statistics(fetched))
    /\ UNCHANGED <<schema, todos, seq, exps, expSeq, uuids, now, pc, initialized, ret>>

-----------------------------------------------------------------------------
(* The lifecycle specification: a store, init_db, then calls and restarts *)

\* The arguments the lifecycle specification calls create_todo/update_todo with.
LifeArgs == {DefaultArgs, TodoArgs("b", "d", "done", "Critical", 1, 0, 2)}
LifeStatuses == {"done", "ready"}
TodoIds == 1..MaxTodos
ExpIds == 1..MaxExps

\* Row i of a todos table of an older version that had the first k optional
\* columns only: status holds that version's default, 'pending' (line 32).
LegacyTodo(i, k) ==
    LET has(c) == \E j \in 1..k : TodoColumnOrder[j] = c
    IN  [id |-> i, unique_id |-> NoCol,
         title |-> IF i = 1 THEN "a" ELSE "b", description |-> "",
         status |-> "pending",
         priority |-> IF has("priority") THEN "Medium" ELSE NoColText,
         target_date |-> IF has("target_date") THEN NULL ELSE NoCol,
         start_date |-> IF has("start_date") THEN NULL ELSE NoCol,
         end_date |-> IF has("end_date") THEN NULL ELSE NoCol,
         created_at |-> 0, updated_at |-> 0]

LegacyExp(i, k) ==
    LET has(c) == \E j \in 1..k : ExpColumnOrder[j] = c
    IN  [id |-> i, title |-> "a", content |-> "",
         tags |-> IF has("tags") THEN "x" ELSE NoColText,
         category |-> IF has("category") THEN "" ELSE NoColText,
         context |-> IF has("context") THEN "" ELSE NoColText,
         created_at |-> 0, updated_at |-> 0]

\* A store no version has touched, or one an older version left: todos with the
\* first k optional columns and n rows, experiences absent (e = -1) or with the
\* first e optional columns and m rows.
Init ==
    /\ pc = At("create_todos")
    /\ initialized = FALSE
    /\ now = 0
    /\ uuids = 0
    /\ ret = NoRet
    /\ query = NoQuery
    /\ result = <<>>
    /\ \/ /\ schema = EmptySchema
          /\ todos = {} /\ seq = 0 /\ exps = {} /\ expSeq = 0
       \/ \E k \in 0..(Len(TodoColumnOrder) - 1), n \in 0..MaxTodos,
             e \in -1..(Len(ExpColumnOrder) - 1), m \in 0..MaxExps :
            /\ e = -1 => m = 0
            /\ schema = [todos |-> TRUE,
                         todoCols |-> {TodoColumnOrder[j] : j \in 1..k},
                         uidUnique |-> FALSE, uidNotNull |-> FALSE,
                         experiences |-> e >= 0,
                         expCols |-> {ExpColumnOrder[j] : j \in 1..e}]
            /\ todos = {LegacyTodo(i, k) : i \in 1..n}
            /\ seq = n
            /\ exps = {LegacyExp(i, e) : i \in 1..m}
            /\ expSeq = m

Next ==
    \/ InitDb
    \/ Restart
    \/ \E a \in LifeArgs : CreateTodo(a)
    \/ \E id \in TodoIds, a \in LifeArgs : UpdateTodo(id, a)
    \/ \E id \in TodoIds, s \in LifeStatuses : UpdateTodoStatus(id, s)
    \/ \E id \in TodoIds : DeleteTodo(id)
    \/ CreateExperience("b", "x, y", "", "")

Spec == Init /\ [][Next]_vars

\* The calls on a new store that init_db has set up, as time passes.
InitCrud ==
    /\ pc = At("serving")
    /\ initialized = TRUE
    /\ schema = CurrentSchema
    /\ todos = {} /\ seq = 0 /\ uuids = 0
    /\ exps = {} /\ expSeq = 0
    /\ now = 0
    /\ ret = NoRet
    /\ query = NoQuery
    /\ result = <<>>

NextCrud ==
    \/ \E a \in LifeArgs : CreateTodo(a)
    \/ \E id \in TodoIds, a \in LifeArgs : UpdateTodo(id, a)
    \/ \E id \in TodoIds, s \in LifeStatuses : UpdateTodoStatus(id, s)
    \/ \E id \in TodoIds : DeleteTodo(id)
    \/ Tick

SpecCrud == InitCrud /\ [][NextCrud]_vars

\* The calls that take or assign an id, on tasks and experiences, within one
\* tick of the clock.
NextIdentity ==
    \/ \E a \in LifeArgs : CreateTodo(a)
    \/ \E id \in TodoIds : GetTodo(id)
    \/ \E id \in TodoIds, a \in LifeArgs : UpdateTodo(id, a)
    \/ \E id \in TodoIds, s \in LifeStatuses : UpdateTodoStatus(id, s)
    \/ \E id \in TodoIds : DeleteTodo(id)
    \/ CreateExperience("b", "x, y", "", "")
    \/ \E id \in ExpIds : DeleteExperience(id)

SpecIdentity == InitCrud /\ [][NextIdentity]_vars

\* The process stops in the middle of init_db, after a statement whose effect
\* is committed (the DDL statements commit as they run, the backfill UPDATEs by
\* the commit of line 80), and is started again: init_db runs from its first
\* statement on what the stopped run left.
InitStop ==
    /\ pc.at \notin {"create_todos", "serving", "failed"}
    /\ pc' = At("create_todos")
    /\ UNCHANGED <<schema, todos, seq, exps, expSeq, uuids, now, initialized, ret, query, result>>

\* init_db on a new or an older store, with runs that stop and start again.
NextInterrupted ==
    \/ InitDb
    \/ InitStop

SpecInterrupted == Init /\ [][NextInterrupted]_vars

-----------------------------------------------------------------------------
(* The query specifications: a populated store, then queries on it *)

\* Row i of a sampled store: created at tick c with arguments a.
SampleRow(i, a, c) == TodoRow(i, i, a, c, c)

\* A store of n sampled rows, on the day after day 0.
SampledStore(n, f) ==
    /\ pc = At("serving")
    /\ initialized = TRUE
    /\ schema = CurrentSchema
    /\ todos = {SampleRow(i, f[i][1], f[i][2]) : i \in 1..n}
    /\ seq = n
    /\ uuids = n
    /\ exps = {}
    /\ expSeq = 0
    /\ now = TicksPerDay
    /\ ret = NoRet
    /\ query = NoQuery
    /\ result = <<>>

\* Rows that differ from a default task in one respect: the status, the day of
\* creation (of a task in the queue and of a done one), the priority, the
\* target date, or the title.
ListSamples ==
    {<<[DefaultArgs EXCEPT !.status = s], 0>> : s \in StatusValues}
    \cup {<<[DefaultArgs EXCEPT !.status = s], TicksPerDay>> : s \in {"in-queue", "done"}}
    \cup {<<[DefaultArgs EXCEPT !.priority = p], 0>> : p \in PriorityValues}
    \cup {<<[DefaultArgs EXCEPT !.target_date = d], 0>> : d \in Dates}
    \cup {<<[DefaultArgs EXCEPT !.title = t], 0>> : t \in Titles}

\* Calls of get_todos that filter (default sort), and calls that sort (no
\* filter). "id" and "unique_id" are columns outside allowed_sorts, "asc" is
\* an order outside {ASC, DESC}.
OffListSorts == {"id", "unique_id"}
OffListOrders == {"asc"}
ListFilters ==
    {ListArgs(sf, fd, td, "created_at", "DESC", inc) :
        sf \in {"", "done", "pending"}, fd \in {NULL, 1},
        td \in {NULL, 0}, inc \in {"false", "true"}}
ListSorts ==
    {ListArgs("", NULL, NULL, sb, so, "true") :
        sb \in allowed_sorts \cup OffListSorts, so \in {"ASC", "DESC"} \cup OffListOrders}

InitList == \E n \in 0..MaxRows : \E f \in [1..n -> ListSamples] : SampledStore(n, f)

\* One call per run: a query changes nothing a later query reads.
NextList == query = NoQuery /\ \E q \in ListFilters \cup ListSorts : ListTodos(q)

SpecList == InitList /\ [][NextList]_vars

\* Rows for get_todays_tasks: any status/start/end with the default priority,
\* and any priority on a task that is not done and starts and ends on the
\* first or the last day.
TodaySamples ==
    {<<[DefaultArgs EXCEPT !.status = s, !.start_date = sd, !.end_date = ed], 0>> :
        s \in {"in-progress", "done"}, sd \in Dates, ed \in Dates}
    \cup {<<[DefaultArgs EXCEPT !.status = "in-progress", !.priority = p,
                                !.start_date = sd, !.end_date = ed], 0>> :
        p \in PriorityValues, sd \in {NULL, 0}, ed \in {0, MaxDay}}

InitToday == \E n \in 0..MaxRows : \E f \in [1..n -> TodaySamples] : SampledStore(n, f)

NextToday == query = NoQuery /\ GetTodaysTasks

SpecToday == InitToday /\ [][NextToday]_vars

\* Stores for create_todo: one id is left to assign, and any of the rows
\* created earlier may have been deleted.
InitCreate ==
    \E kept \in SUBSET (1..(MaxTodos - 1)) :
        /\ SampledStore(MaxTodos - 1, [i \in 1..(MaxTodos - 1) |-> <<DefaultArgs, 0>>])
        /\ todos = {SampleRow(i, DefaultArgs, 0) : i \in kept}

NextCreate ==
    \/ seq < MaxTodos /\ \E a \in AllTodoArgs : CreateTodo(a)
    \/ \E id \in TodoIds : GetTodo(id)

SpecCreate == InitCreate /\ [][NextCreate]_vars

-----------------------------------------------------------------------------
(* The helper specifications: stored experiences, then one call of the helper *)

\* A row of experiences as the helper reads it.
RagRow(id, tags, cat, ctx, created) ==
    [id |-> id, title |-> "a", content |-> <<>>, tags |-> tags, category |-> cat,
     context |-> ctx, created_at |-> created, updated_at |-> created]

\* A store holding the rows f[1] .. f[n], each a kind of row and a creation tick.
RagStore(n, f) ==
    /\ pc = At("serving")
    /\ initialized = TRUE
    /\ schema = CurrentSchema
    /\ todos = {} /\ seq = 0 /\ uuids = 0
    /\ exps = {RagRow(i, f[i][1].tags, f[i][1].category, f[i][1].context, f[i][2]) : i \in 1..n}
    /\ expSeq = n
    /\ now = TicksPerDay
    /\ ret = NoRet
    /\ query = NoQuery
    /\ result = <<>>

RagKind(tags, cat, ctx) == [tags |-> tags, category |-> cat, context |-> ctx]

\* The tag strings of the document specification: every text of at most
\* MaxTagLen characters over TagChars, None, a missing key, and "a, ,b,,c ".
MaxTagLen == 4
TagChars == {"a", "b", " ", ","}
ExampleTags == <<"a", ",", " ", ",", "b", ",", ",", "c", " ">>
TagTexts ==
    UNION {[1..n -> TagChars] : n \in 0..MaxTagLen} \cup {NoneText, AbsentKey, ExampleTags}

InitDocument ==
    \E t \in TagTexts : RagStore(1, <<<<RagKind(t, <<>>, <<>>), 0>>>>)

NextDocument == query = NoQuery /\ \E r \in exps : FormatExperience(r)

SpecDocument == InitDocument /\ [][NextDocument]_vars

\* The tag strings of the search and statistics specification: eleven tags,
\* tags shared with them in another case and with blanks, a tag twice, no tag.
RECURSIVE Joined(_)
Joined(tokens) ==
    IF Len(tokens) = 0 THEN <<>>
    ELSE IF Len(tokens) = 1 THEN tokens[1]
    ELSE tokens[1] \o <<Comma>> \o Joined(Tail(tokens))

ElevenTags ==
    Joined(<<<<"a">>, <<"b">>, <<"c">>, <<"d">>, <<"e">>, <<"f">>, <<"g">>, <<"h">>,
             <<"i">>, <<"j">>, <<"k">>>>)
TagSamples ==
    {ElevenTags,
     <<"k", ",", "l">>,
     <<"l", ",", " ", "A">>,
     <<"b", ",", "B", " ", ",", "b">>,
     <<>>,
     NoneText}

\* Rows that differ from a row without tags, category and context in one respect.
RagSamples ==
    {RagKind(t, <<>>, <<>>) : t \in TagSamples}
    \cup {RagKind(<<>>, c, <<>>) : c \in {NoneText, <<"T">>}}
    \cup {RagKind(<<>>, <<>>, <<"x">>)}

\* The query tag lists of search_experiences_by_tags.
QueryTagLists ==
    {<<>>, <<<<"A">>>>, <<<<" ", "l">>, <<"z">>>>, <<<<>>>>}

MaxDocs == 2
InitRag ==
    \E n \in 0..MaxDocs : \E f \in [1..n -> RagSamples \X {0, 1}] : RagStore(n, f)

NextRag ==
    \/ query = NoQuery /\ \E tags \in QueryTagLists : SearchExperiencesByTags(tags)
    \/ query = NoQuery /\ GetExperienceStatistics

SpecRag == InitRag /\ [][NextRag]_vars

-----------------------------------------------------------------------------
(* Claims *)

\* The rows of the last query result, and whether it lists no row twice.
Listed == {result[i] : i \in 1..Len(result)}
NoRowTwice == Cardinality(Listed) = Len(result)

\* C1: after a create_todo that returned id, get_todo_by_id(id) yields one
\* record whose title, description, status, priority, target_date, start_date
\* and end_date are the arguments of the call.
C1_CreateThenGet ==
    (ret.op = "create_todo" /\ ret.err = "none") =>
        /\ Cardinality(get_todo_by_id(todos, ret.id)) = 1
        /\ \A r \in get_todo_by_id(todos, ret.id) : ArgsOf(r) = ret.args

\* C1 witness: a task created with no default argument, among other tasks.
C1_Witness ==
    /\ ret.op = "create_todo" /\ ret.err = "none"
    /\ ret.args = TodoArgs("b", "d", "hold", "Critical", 2, 0, 1)
    /\ Cardinality(todos) = MaxTodos
    /\ get_todo_by_id(todos, ret.id) # {}

\* No two stored tasks have the same token.
C2_NoTwoSameToken ==
    Serving => \A r, q \in todos : r.id # q.id => r.unique_id # q.unique_id

\* A step leaves the token of every task that stays stored as it is.
C2_TokenKept ==
    Serving => \A r \in todos : \A q \in todos' : q.id = r.id => q.unique_id = r.unique_id

\* C2: while the application serves, no two stored tasks have the same token,
\* and no call (create_todo, update_todo, update_todo_status, delete_todo)
\* changes the token of a task that stays stored.
C2_TokenUniqueAndStable == [](C2_NoTwoSameToken) /\ [][C2_TokenKept]_vars

\* C2 witness: two tasks are stored and one of them has just been updated.
C2_Witness ==
    /\ Serving /\ Cardinality(todos) = 2
    /\ ret.op \in {"update_todo", "update_todo_status"} /\ ret.ok

\* The creation-date bounds of a get_todos call, as the claim states them.
WithinDateBounds(r) ==
    /\ query.from_date = NULL \/ DateOf(r.created_at) >= query.from_date
    /\ query.to_date = NULL \/ DateOf(r.created_at) <= query.to_date

\* C3: with no status filter and include_done = 'false', get_todos returns no
\* done task; with a status filter it returns exactly the tasks within the date
\* bounds that have this status, whatever include_done is; with no status
\* filter and include_done = 'true' it leaves no done task out.
C3_DoneFilter ==
    query.op = "get_todos" =>
        /\ NoRowTwice /\ Listed \subseteq todos
        /\ (query.status_filter = "" /\ query.include_done = "false") =>
               \A r \in Listed : r.status # "done"
        /\ query.status_filter # "" =>
               Listed = {r \in todos : r.status = query.status_filter /\ WithinDateBounds(r)}
        /\ (query.status_filter = "" /\ query.include_done = "true") =>
               \A r \in todos : (r.status = "done" /\ WithinDateBounds(r)) => r \in Listed

\* C3 witness: a store with a done task, listed without it by default.
C3_Witness ==
    /\ query.op = "get_todos"
    /\ query.status_filter = "" /\ query.include_done = "false"
    /\ \E r \in todos : r.status = "done" /\ WithinDateBounds(r)
    /\ Len(result) = 1

\* The fixed orders of the claims, lowest rank first.
StatusOrder == <<"in-queue", "ready", "in-progress", "hold", "done">>
PriorityOrder == <<"Low", "Medium", "High", "Critical">>
Recognized(v, order) == \E k \in 1..Len(order) : order[k] = v
PlaceIn(v, order) == CHOOSE k \in 1..Len(order) : order[k] = v

\* Rows i < j of the result respect order on field for the requested direction.
RankOrdered(field, order) ==
    \A i, j \in 1..Len(result) :
        (i < j /\ Recognized(result[i][field], order) /\ Recognized(result[j][field], order)) =>
            /\ query.sort_order = "ASC" =>
                   PlaceIn(result[i][field], order) <= PlaceIn(result[j][field], order)
            /\ query.sort_order = "DESC" =>
                   PlaceIn(result[i][field], order) >= PlaceIn(result[j][field], order)

\* C4: get_todos sorted by status orders by in-queue < ready < in-progress <
\* hold < done, and sorted by priority by Low < Medium < High < Critical: of
\* two returned tasks with recognized values, the one of lower rank comes
\* first under ASC and last under DESC.
C4_RankOrder ==
    query.op = "get_todos" =>
        /\ query.sort_by = "status" => RankOrdered("status", StatusOrder)
        /\ query.sort_by = "priority" => RankOrdered("priority", PriorityOrder)

\* C4 witness: status DESC lists done before in-queue (not the lexical order).
C4_Witness ==
    /\ query.op = "get_todos" /\ query.sort_by = "status" /\ query.sort_order = "DESC"
    /\ Len(result) = 2
    /\ result[1].status = "done" /\ result[2].status = "in-queue"

\* No unrecognized value of field comes before a recognized one.
UnrecognizedLast(field, order) ==
    \A i, j \in 1..Len(result) :
        i < j => ~(~Recognized(result[i][field], order) /\ Recognized(result[j][field], order))

\* No unrecognized value of field comes after a recognized one.
UnrecognizedFirst(field, order) ==
    \A i, j \in 1..Len(result) :
        i < j => ~(Recognized(result[i][field], order) /\ ~Recognized(result[j][field], order))

\* C5 as stated: sorted by status or priority, tasks with an unrecognized value
\* come after every task with a recognized one, under ASC and under DESC.
C5_UnrecognizedAlwaysLast ==
    (query.op = "get_todos" /\ query.sort_order \in {"ASC", "DESC"}) =>
        /\ query.sort_by = "status" => UnrecognizedLast("status", StatusOrder)
        /\ query.sort_by = "priority" => UnrecognizedLast("priority", PriorityOrder)

\* C5 amended: sorted by status or priority, tasks with an unrecognized value
\* come after every task with a recognized one under ASC, and before every
\* such task under DESC.
C5_UnrecognizedLastUnderAsc ==
    query.op = "get_todos" =>
        /\ (query.sort_by = "status" /\ query.sort_order = "ASC") =>
               UnrecognizedLast("status", StatusOrder)
        /\ (query.sort_by = "priority" /\ query.sort_order = "ASC") =>
               UnrecognizedLast("priority", PriorityOrder)
        /\ (query.sort_by = "status" /\ query.sort_order = "DESC") =>
               UnrecognizedFirst("status", StatusOrder)
        /\ (query.sort_by = "priority" /\ query.sort_order = "DESC") =>
               UnrecognizedFirst("priority", PriorityOrder)

\* C5 witness: priority ASC lists an unrecognized priority after Critical.
C5_Witness ==
    /\ query.op = "get_todos" /\ query.sort_by = "priority" /\ query.sort_order = "ASC"
    /\ Len(result) = 2
    /\ result[1].priority = "Critical" /\ result[2].priority = "Urgent"

\* C6: get_todos sorted by remaining_days lists every task without a target
\* date after every task with one, whatever the sort order; the tasks with a
\* target date follow the direction.
C6_NullTargetLast ==
    (query.op = "get_todos" /\ query.sort_by = "remaining_days") =>
        \A i, j \in 1..Len(result) : i < j =>
            /\ ~(result[i].target_date = NULL /\ result[j].target_date # NULL)
            /\ (result[i].target_date # NULL /\ result[j].target_date # NULL) =>
                   /\ query.sort_order = "ASC" =>
                          result[i].target_date <= result[j].target_date
                   /\ query.sort_order = "DESC" =>
                          result[i].target_date >= result[j].target_date

\* C6 witness: remaining_days DESC with a dated task before an undated one.
C6_Witness ==
    /\ query.op = "get_todos" /\ query.sort_by = "remaining_days"
    /\ query.sort_order = "DESC"
    /\ Len(result) = 2
    /\ result[1].target_date = 0 /\ result[2].target_date = NULL

\* The sort values of the claim.
SortAllowList ==
    {"created_at", "updated_at", "title", "status", "priority", "target_date",
     "start_date", "end_date", "remaining_days"}

\* C7: a sort_by outside the allow-list gives what sort_by = created_at gives
\* (each result of the one call is a result of the other), a sort_order other
\* than ASC and DESC gives what DESC gives, and the sort values written into
\* the query text are always from the two sets.
C7_SortFallback ==
    query.op = "get_todos" =>
        /\ QueryText(query).order_by \in SortAllowList
        /\ QueryText(query).direction \in {"ASC", "DESC"}
        /\ query.sort_by \notin SortAllowList =>
               result \in get_todos(todos, [query EXCEPT !.sort_by = "created_at"], now)
        /\ query.sort_by = "created_at" =>
               \A sb \in OffListSorts :
                   result \in get_todos(todos, [query EXCEPT !.sort_by = sb], now)
        /\ query.sort_order \notin {"ASC", "DESC"} =>
               result \in get_todos(todos, [query EXCEPT !.sort_order = "DESC"], now)
        /\ query.sort_order = "DESC" =>
               \A so \in OffListOrders :
                   result \in get_todos(todos, [query EXCEPT !.sort_order = so], now)

\* C7 witness: sort_by = id, sort_order = asc lists the newer task first
\* although its id is the smaller one.
C7_Witness ==
    /\ query.op = "get_todos" /\ query.sort_by = "id" /\ query.sort_order = "asc"
    /\ Len(result) = 2
    /\ result[1].id < result[2].id
    /\ result[1].created_at > result[2].created_at

\* The condition of C8 on one task.
DueToday(r) ==
    \/ r.start_date # NULL /\ r.end_date # NULL
         /\ r.start_date <= Today /\ Today <= r.end_date
    \/ r.end_date # NULL /\ r.end_date < Today /\ r.status # "done"

\* C8: get_todays_tasks returns exactly the tasks with start_date <= today <=
\* end_date (both set) or with end_date < today and a status other than done;
\* never a done task whose end_date has passed, always a task that started
\* yesterday and ends tomorrow.
C8_TodaysTasks ==
    query.op = "get_todays_tasks" =>
        /\ NoRowTwice
        /\ Listed = {r \in todos : DueToday(r)}
        /\ \A r \in todos :
               (r.status = "done" /\ r.end_date # NULL /\ r.end_date < Today) => r \notin Listed
        /\ \A r \in todos :
               (r.start_date = Today - 1 /\ r.end_date = Today + 1) => r \in Listed

\* C8 witness: of a done task that ended yesterday and a task in progress from
\* yesterday to tomorrow, only the second is returned.
C8_Witness ==
    /\ query.op = "get_todays_tasks"
    /\ \E r \in todos : r.status = "done" /\ r.end_date = Today - 1 /\ r \notin Listed
    /\ \E r \in Listed : /\ r.status = "in-progress"
                         /\ r.start_date = Today - 1 /\ r.end_date = Today + 1

\* Overdue, and the priority order of get_todays_tasks, as C9 states them.
Overdue(r) == r.end_date # NULL /\ r.end_date < Today /\ r.status # "done"
TodayPriorityOrder == <<"Critical", "High", "Medium", "Low">>
TodayPlace(p) ==
    IF Recognized(p, TodayPriorityOrder) THEN PlaceIn(p, TodayPriorityOrder)
    ELSE Len(TodayPriorityOrder) + 1

\* C9: in the result of get_todays_tasks every overdue task precedes every
\* task that is not overdue; tasks with the same overdue flag are ordered
\* Critical, High, Medium, Low, then unrecognized priorities; tasks equal in
\* both are ordered by start_date ascending.
C9_TodaysOrder ==
    query.op = "get_todays_tasks" =>
        \A i, j \in 1..Len(result) : i < j =>
            /\ ~(~Overdue(result[i]) /\ Overdue(result[j]))
            /\ (Overdue(result[i]) <=> Overdue(result[j])) =>
                   TodayPlace(result[i].priority) <= TodayPlace(result[j].priority)
            /\ ( /\ Overdue(result[i]) <=> Overdue(result[j])
                 /\ TodayPlace(result[i].priority) = TodayPlace(result[j].priority)
                 /\ result[i].start_date # NULL /\ result[j].start_date # NULL ) =>
                   result[i].start_date <= result[j].start_date

\* C9 witness: an overdue task of priority Low comes before a Critical task
\* that is not overdue.
C9_Witness ==
    /\ query.op = "get_todays_tasks"
    /\ Len(result) = 2
    /\ Overdue(result[1]) /\ result[1].priority = "Low"
    /\ ~Overdue(result[2]) /\ result[2].priority = "Critical"

\* A statement of init_db is about to run.
Initializing == pc.at \notin {"serving", "failed"}

\* A statement of a later run of init_db changes no row, schema or counter
\* and does not end the run with an error.
C10_Step ==
    (initialized /\ Initializing) =>
        /\ todos' = todos /\ exps' = exps
        /\ schema' = schema /\ seq' = seq /\ expSeq' = expSeq
        /\ pc'.at # "failed"

\* C10: once a run of init_db has completed on the store, a later run changes
\* nothing: every task row and experience row keeps every field (its token
\* included), no row is added or removed, and no error is surfaced for the
\* columns that exist.
C10_SecondInitNoOp == [][C10_Step]_vars

\* C10 witness: a later run of init_db has reached its last statement on a
\* store holding an updated task and an experience.
C10_Witness ==
    /\ pc = At("close") /\ initialized = TRUE
    /\ \E r \in todos : r.priority = "Critical"
    /\ exps # {}

\* A task row holds a token: its table has the column and the value is set.
HasToken(r) == r.unique_id # NULL /\ r.unique_id # NoCol

\* C11: whenever init_db has run to completion, from a new store, from a store
\* of an older version without the token column, or from what a run that
\* stopped after one of its commits left, every task row has a non-null token
\* and no two rows have the same token; and while the uniqueness constraint on
\* the token column exists, no row is without a token (the backfill comes
\* before the constraint).
C11_TokensAfterInit ==
    /\ Serving =>
          /\ \A r \in todos : HasToken(r)
          /\ \A r, q \in todos : r.id # q.id => r.unique_id # q.unique_id
    /\ schema.uidUnique => \A r \in todos : HasToken(r)

\* What a delete call that took id and returned flag did to the rows of its
\* table: a stored id is removed, alone, and reported TRUE; an id that is not
\* stored changes nothing and is reported FALSE.
DeletedExactly(before, after, id, flag) ==
    IF \E r \in before : r.id = id
    THEN /\ flag = TRUE
         /\ after = {r \in before : r.id # id}
         /\ Cardinality(after) = Cardinality(before) - 1
    ELSE /\ flag = FALSE
         /\ after = before

\* A step that is a call of delete_todo or delete_experience does what C12 says.
C12_Step ==
    /\ (ret' # ret /\ ret'.op = "delete_todo") =>
           /\ ret'.err = "none"
           /\ DeletedExactly(todos, todos', ret'.id, ret'.ok)
           /\ exps' = exps
    /\ (ret' # ret /\ ret'.op = "delete_experience") =>
           /\ ret'.err = "none"
           /\ DeletedExactly(exps, exps', ret'.id, ret'.ok)
           /\ todos' = todos

\* C12: delete_todo and delete_experience called with an id that is not stored
\* return False, raise no error and leave every row as it is; called with a
\* stored id they return True and remove that row and no other.
C12_DeleteByIdentity == [][C12_Step]_vars

\* C12 witness: a task was deleted while another task and an experience stay
\* stored.
C12_Witness ==
    /\ ret.op = "delete_todo" /\ ret.ok = TRUE
    /\ Cardinality(todos) = 1 /\ seq = 2
    /\ \A r \in todos : r.id # ret.id
    /\ exps # {}

\* The tag string of an experience as a text: nothing for None or a missing key.
TagString(tags) == IF tags \in {NoneText, AbsentKey} THEN <<>> ELSE tags

\* The pieces of a text between its commas, by position: positions i..j hold no
\* comma and are bounded by a comma or an end of the text on either side.
Pieces(s) ==
    {p \in (1..(Len(s) + 1)) \X (0..Len(s)) :
        /\ p[2] >= p[1] - 1
        /\ \A k \in p[1]..p[2] : s[k] # ","
        /\ p[1] = 1 \/ s[p[1] - 1] = ","
        /\ p[2] = Len(s) \/ s[p[2] + 1] = ","}

\* The positions of a piece that hold no blank, and the pieces that have one.
Inked(s, p) == {k \in p[1]..p[2] : s[k] # " "}
TokenPieces(s) == {p \in Pieces(s) : Inked(s, p) # {}}

\* A piece without the blanks at its ends.
Trimmed(s, p) ==
    LET lo == CHOOSE k \in Inked(s, p) : \A m \in Inked(s, p) : k <= m
        hi == CHOOSE k \in Inked(s, p) : \A m \in Inked(s, p) : k >= m
    IN  SubSeq(s, lo, hi)

\* tokens is the sequence of the trimmed non-empty pieces of s, in their order.
IsTokenSequence(tokens, s) ==
    /\ Len(tokens) = Cardinality(TokenPieces(s))
    /\ \A p \in TokenPieces(s) :
           tokens[Cardinality({q \in TokenPieces(s) : q[1] <= p[1]})] = Trimmed(s, p)

\* The case-folded tokens of a tag string, as a set.
FoldedTokens(s) == {Lower(Trimmed(s, p)) : p \in TokenPieces(s)}

\* The experiences a search for tags is to return, by C13.
SharesTag(exp, tags) ==
    \E i \in 1..Len(tags) : Lower(tags[i]) \in FoldedTokens(TagString(exp.tags))

\* C13: for every store and every query tag list, search_experiences_by_tags
\* raises no error and returns the documents of exactly the stored experiences
\* of which a case-folded, trimmed, non-empty tag token is among the
\* case-folded query tags; with an empty query tag list it returns nothing.
C13_SearchByTags ==
    query.op = "search_experiences_by_tags" =>
        /\ result.err = "none"
        /\ {result.value[i] : i \in 1..Len(result.value)}
               = {format_experience_for_rag(e) : e \in {x \in exps : SharesTag(x, query.tags)}}
        /\ Len(result.value) = Cardinality({x \in exps : SharesTag(x, query.tags)})
        /\ query.tags = <<>> => result.value = <<>>

\* C14: the tags of format_experience_for_rag(experience) are the pieces of the
\* tag string between its commas, each trimmed, those that are empty after
\* trimming dropped, in their order; None, a missing and an empty tag string
\* give the empty sequence, and "a, ,b,,c " gives a, b, c.
C14_DocumentTags ==
    query.op = "format_experience_for_rag" =>
        /\ IsTokenSequence(result.tags, TagString(query.experience.tags))
        /\ query.experience.tags \in {NoneText, AbsentKey, <<>>} => result.tags = <<>>
        /\ query.experience.tags = ExampleTags => result.tags = <<<<"a">>, <<"b">>, <<"c">>>>

\* C14 witness: the document of an experience with the tag string "a, ,b,,c ".
C14_Witness ==
    /\ query.op = "format_experience_for_rag"
    /\ query.experience.tags = ExampleTags
    /\ Len(result.tags) = 3

\* The token sequences of the fetched experiences, in the order of the scan.
ScannedTokens(fetched) == [i \in 1..Len(fetched) |-> TagList(fetched[i].tags)]

\* The places where tag t occurs in the scan: the experience and the position
\* among its tokens.
Occurrences(tokens, t) ==
    {o \in (1..Len(tokens)) \X (1..MaxOf({Len(tokens[i]) : i \in 1..Len(tokens)})) :
        o[2] <= Len(tokens[o[1]]) /\ tokens[o[1]][o[2]] = t}

ScannedTags(tokens) ==
    UNION {{tokens[i][k] : k \in 1..Len(tokens[i])} : i \in 1..Len(tokens)}

\* A tag with occurrences occ is met in the scan before a tag with occurrences occ2.
MetBefore(occ, occ2) ==
    \E o \in occ : \A v \in occ2 : o[1] < v[1] \/ (o[1] = v[1] /\ o[2] < v[2])

\* C15: the top tags of get_experience_statistics are the tags of highest
\* count over all experiences, at most 10, each with its count, in descending
\* count, tags of equal count in the order in which the scan first met them;
\* no tag left out has a higher count than a listed one; with no experience
\* every count is 0 and the histograms are empty.
C15_TopTags ==
    query.op = "get_experience_statistics" =>
        LET top == result.value.top_tags
            tokens == ScannedTokens(query.fetched)
            all == ScannedTags(tokens)
            occ == [t \in all |-> Occurrences(tokens, t)]
            count == [t \in all |-> Cardinality(occ[t])]
            listed == {top[i].key : i \in 1..Len(top)}
        IN  /\ result.err = "none"
            /\ Len(top) = (IF Cardinality(all) < 10 THEN Cardinality(all) ELSE 10)
            /\ \A i \in 1..Len(top) : top[i].key \in all /\ top[i].n = count[top[i].key]
            /\ \A i, j \in 1..Len(top) : i < j =>
                   /\ top[i].key # top[j].key
                   /\ top[i].n >= top[j].n
                   /\ top[i].n = top[j].n => MetBefore(occ[top[i].key], occ[top[j].key])
            /\ \A t \in all \ listed : \A i \in 1..Len(top) : count[t] <= top[i].n
            /\ query.fetched = <<>> =>
                   /\ result.value.total_experiences = 0
                   /\ result.value.experiences_with_context = 0
                   /\ result.value.experiences_with_tags = 0
                   /\ result.value.unique_categories = 0
                   /\ result.value.unique_tags = 0
                   /\ result.value.category_distribution = <<>>
                   /\ result.value.top_tags = <<>>

\* C15 witness: twelve tags were counted, one of them twice; it is listed
\* first, and two of the others are left out.
C15_Witness ==
    /\ query.op = "get_experience_statistics"
    /\ result.value.unique_tags = 12
    /\ Len(result.value.top_tags) = 10
    /\ result.value.top_tags[1] = [key |-> <<"k">>, n |-> 2]
    /\ result.value.top_tags[2] = [key |-> <<"a">>, n |-> 1]

\* The step is a call of update_todo or update_todo_status that succeeded.
UpdateStep ==
    /\ ret' # ret \/ todos' # todos
    /\ ret'.op \in {"update_todo", "update_todo_status"}
    /\ ret'.ok = TRUE

\* C16 as stated: each successful update_todo and update_todo_status leaves the
\* task's updated_at strictly greater than before, also when two mutations of
\* the task follow each other at once, and leaves its created_at unchanged.
C16_UpdatedAtStrictlyGreater ==
    [][UpdateStep =>
          \A r \in todos : \A q \in todos' : (r.id = ret'.id /\ q.id = ret'.id) =>
              /\ q.updated_at > r.updated_at
              /\ q.created_at = r.created_at]_vars

\* C16 amended: each successful update_todo and update_todo_status leaves the
\* task's updated_at equal to the timestamp of the call, in whole seconds: it
\* is strictly greater than before when the clock reads later than the value
\* before, and the same when the call comes within the second of the mutation
\* before; created_at is unchanged.
C16_UpdatedAtRefreshed ==
    [][UpdateStep =>
          \A r \in todos : \A q \in todos' : (r.id = ret'.id /\ q.id = ret'.id) =>
              /\ q.updated_at = now
              /\ now > r.updated_at => q.updated_at > r.updated_at
              /\ now = r.updated_at => q.updated_at = r.updated_at
              /\ q.created_at = r.created_at]_vars

\* C16 witness: a task created at tick 0 was updated after the clock moved.
C16_Witness ==
    /\ ret.op \in {"update_todo", "update_todo_status"} /\ ret.ok = TRUE
    /\ \E r \in todos : r.id = ret.id /\ r.created_at = 0 /\ r.updated_at = 1

\* Task id was assigned and is stored no more: it was deleted.
Gone(id) == id <= seq /\ \A r \in todos : r.id # id

\* A step keeps a deleted task deleted, by each of the calls C17 names.
C17_Step ==
    /\ \A id \in TodoIds :
           /\ ((ret' # ret \/ todos' # todos) /\ ret'.op = "delete_todo"
                  /\ ret'.id = id /\ ret'.ok = TRUE) => Gone(id)'
           /\ Gone(id) => Gone(id)'
    /\ (ret' # ret /\ ret'.op = "create_todo" /\ ret'.err = "none") =>
           /\ ret'.id > seq
           /\ \A r \in todos : r.id # ret'.id
    /\ ((ret' # ret \/ todos' # todos)
           /\ ret'.op \in {"update_todo", "update_todo_status"} /\ Gone(ret'.id)) =>
           /\ ret'.ok = FALSE
           /\ todos' = todos
    /\ (ret' # ret /\ ret'.op = "get_todo_by_id" /\ Gone(ret'.id)) => ret'.rows = {}

\* C17: once delete_todo(id) has succeeded, get_todo_by_id(id) finds no task in
\* any later state, whatever calls of create_todo, update_todo,
\* update_todo_status and delete_todo follow: create_todo assigns no id that
\* was assigned before, also after the task with the highest id was deleted,
\* and the updates of a deleted id return False and create no row.
C17_DeletedStaysDeleted == [][C17_Step]_vars

\* C17 witness: the task with the highest id was deleted, a task was created
\* after that, and a lookup of the deleted id found nothing.
C17_Witness ==
    /\ ret.op = "get_todo_by_id" /\ ret.id = 1 /\ ret.rows = {}
    /\ seq = 2
    /\ \E r \in todos : r.id = 2 /\ r.unique_id = 2
    /\ \A r \in todos : r.id # 1

====
